---------------------------- MODULE Spec2Model ----------------------------
(***************************************************************************)
(* Push PWA backend (src/main.py): the send-push handler, its per-IP       *)
(* sliding-window rate limiter, the optional API-key check, the lazy       *)
(* Firebase initialisation, the Firestore token query and the per-token    *)
(* FCM send loop.                                                          *)
(*                                                                         *)
(* Text is modelled as a sequence of one-character strings, so that        *)
(* str.strip() is computed and not assumed.  A value that may be None, a   *)
(* non-string or a string is a record [kind, val].                         *)
(***************************************************************************)
EXTENDS Integers, Sequences, FiniteSets, TLC

(***************************************************************************)
(* Bounds of the model.  The three program constants of src/main.py        *)
(* (lines 35, 41, 42: 100 tokens, 30 requests, 60 seconds) are scaled      *)
(* down so that the limit, the window edge and the cap are all reached;    *)
(* every formula below is stated over the names, never over the numbers.   *)
(* So are the two lengths 200 and 1000 of lines 143-144 and 157-158.       *)
(***************************************************************************)
\* the 200 of title[:200] and of max_length=200
TitleMax == 2

\* the 1000 of body[:1000] and of max_length=1000
BodyMax == 3

MAX_TOKENS_PER_REQUEST == 2

RATE_LIMIT_REQUESTS == 2

RATE_LIMIT_WINDOW_SEC == 3

\* number of worker threads that run the synchronous handler
NumThreads == 2

\* the monotonic clock stops advancing at MaxTime
MaxTime == 4

\* number of requests the concurrent runs take in
MaxRequests == 3

\* largest number of documents in the fcmTokens collection
MaxStore == 3

\* line 161: max_length of deviceName
DeviceNameMax == 100

Threads == 1 .. NumThreads

---------------------------------------------------------------------------
(* Values and text *)

NoneVal == [kind |-> "none", val |-> <<>>]

Str(s) == [kind |-> "str", val |-> s]

\* a value that is neither None nor a string (a number stored in a field)
NonStr == [kind |-> "other", val |-> <<>>]

IsStr(v) == v.kind = "str"

RECURSIVE LStrip(_)
LStrip(s) == IF s /= <<>> /\ Head(s) = " " THEN LStrip(Tail(s)) ELSE s

RECURSIVE RStrip(_)
RStrip(s) ==
    IF s /= <<>> /\ s[Len(s)] = " " THEN RStrip(SubSeq(s, 1, Len(s) - 1)) ELSE s

\* str.strip()
Strip(s) == RStrip(LStrip(s))

\* Python truthiness of an Optional[str]
Truthy(v) == IsStr(v) /\ v.val /= <<>>

\* the first n elements of s (a query's .limit(n), a slice s[:n])
Take(s, n) == SubSeq(s, 1, IF Len(s) < n THEN Len(s) ELSE n)

---------------------------------------------------------------------------
(* Token resolver: _collect_fcm_tokens, lines 117-132 *)

\* a Firestore document of the fcmTokens collection, as doc.to_dict() gives it
Doc(tok, dev) == [token |-> tok, deviceName |-> dev]

RECURSIVE Where(_, _)
\* col_ref.where("deviceName", "==", name): the documents whose field equals name
Where(docs, name) ==
    IF docs = <<>> THEN <<>>
    ELSE IF Head(docs).deviceName = Str(name)
         THEN <<Head(docs)>> \o Where(Tail(docs), name)
         ELSE Where(Tail(docs), name)

\* isinstance(token, str) and token.strip()
ValidToken(tok) == IsStr(tok) /\ Strip(tok.val) /= <<>>

RECURSIVE TokensOf(_)
\* the loop over query.stream(): append token.strip() for every valid token
TokensOf(docs) ==
    IF docs = <<>> THEN <<>>
    ELSE IF ValidToken(Head(docs).token)
         THEN <<Strip(Head(docs).token.val)>> \o TokensOf(Tail(docs))
         ELSE TokensOf(Tail(docs))

\* device_name and device_name.strip()
HasFilter(device_name) == Truthy(device_name) /\ Strip(device_name.val) /= <<>>

\* the query without its .limit()
Query_unlimited(docs, device_name) ==
    IF HasFilter(device_name) THEN Where(docs, Strip(device_name.val)) ELSE docs

\* the query of lines 120-125, streamed in store order
Query(docs, device_name) ==
    IF HasFilter(device_name)
    THEN Take(Where(docs, Strip(device_name.val)), MAX_TOKENS_PER_REQUEST)
    ELSE Take(docs, MAX_TOKENS_PER_REQUEST)

_collect_fcm_tokens(docs, device_name) == TokensOf(Query(docs, device_name))

---------------------------------------------------------------------------
(* Inputs *)

\* request.client.host, or "none" when request.client is None
Clients == {"h1", "none"}

\* line 183
ClientIp(client) == IF client = "none" THEN "unknown" ELSE client

Ips == {ClientIp(c) : c \in Clients}

\* values of the PUSH_API_KEY environment variable: unset, blank, set
EnvKeys == {NoneVal, Str(<<" ">>), Str(<<"k", " ">>)}

\* values of the X-API-Key header: absent, the configured key, another key
Headers == {NoneVal, Str(<<"k">>), Str(<<"w">>)}

\* values of deviceName in the request body
Filters ==
    {NoneVal, Str(<<>>), Str(<<" ">>), Str(<<"p">>), Str(<<" ", "p">>), Str(<<"q">>)}

\* values of a document's token field: missing, a number, empty, blank, two tokens
TokenVals ==
    {NoneVal, NonStr, Str(<<>>), Str(<<" ">>), Str(<<"A">>), Str(<<" ", "B">>)}

\* values of a document's deviceName field: missing, two names, a padded name
DeviceVals == {NoneVal, Str(<<"p">>), Str(<<"q">>), Str(<<" ", "p">>)}

Docs == {Doc(tok, dev) : tok \in TokenVals, dev \in DeviceVals}

\* every content of the collection of at most MaxStore documents
Stores == UNION {[1 .. n -> Docs] : n \in 0 .. MaxStore}

\* the collections the handler runs against: the empty one, and MaxStore
\* documents of device "p" but the second, which holds no valid token
HandlerStores ==
    { <<>>,
      [i \in 1 .. MaxStore |->
          IF i = 2 THEN Doc(NonStr, Str(<<"q">>))
          ELSE IF i = 1 THEN Doc(Str(<<"A">>), Str(<<"p">>))
          ELSE Doc(Str(<<" ", "B">>), Str(<<"p">>))] }

HandlerFilters == {NoneVal, Str(<<" ", "p">>), Str(<<"q">>)}

\* a text of n characters, each told apart by its position
Text(n) == [i \in 1 .. n |-> i]

\* title and body of a request: empty, short, of the greatest length, one more
Titles == {Text(n) : n \in {0, 1, TitleMax, TitleMax + 1}}

Bodies == {Text(n) : n \in {0, 1, BodyMax, BodyMax + 1}}

---------------------------------------------------------------------------
(* State *)

VARIABLES
    clock,                  \* time.monotonic()
    peers,                  \* the clients that send requests to this process
    PUSH_API_KEY,           \* line 38, fixed at import
    _rate_limit_buckets,    \* line 43
    _firebase_initialized,  \* line 70
    apps,                   \* firebase_admin's registry: number of default apps
    store,                  \* the fcmTokens collection
    pc,                     \* position of each worker thread in send_push
    req,                    \* the request a thread is handling
    now,                    \* _rate_limit_check's local
    kept,                   \* the list built by the comprehension of line 50
    tokens,                 \* send_push's local
    idx,                    \* position of the loop of line 138
    success,                \* _send_messages_to_tokens's local
    failure,                \* _send_messages_to_tokens's local
    resp,                   \* the response of the finished request
    admitted,               \* history: per IP, the times of the admitted requests
    unauth,                 \* history: per IP, the times of the requests answered 401
    sends,                  \* history: per thread, the provider sends of its request
    work,                   \* history: per thread, what its request has used so far:
                            \* "quota", "firebase", "store", "dispatch", "send"
    served,                 \* history: number of requests taken in concurrently
    initCalls,              \* history: calls of firebase_admin.initialize_app
    rStore, rFilter, rResult, rDone   \* a call of _collect_fcm_tokens on its own

reqVars == <<pc, req, now, kept, tokens, idx, success, failure, resp>>

histVars == <<admitted, unauth, sends, work, initCalls, served>>

resolveVars == <<rStore, rFilter, rResult, rDone>>

vars == <<clock, peers, PUSH_API_KEY, _rate_limit_buckets, _firebase_initialized, apps,
          store, reqVars, histVars, resolveVars>>

NoReq == [client |-> "none", api_key |-> NoneVal, device_name |-> NoneVal,
          title |-> <<>>, body |-> <<>>]

NoResp == [status |-> 0, kind |-> "none", success_count |-> 0,
           failure_count |-> 0, total |-> 0]

\* the state after import of main.py, before any request
InitProgram(env) ==
    /\ clock = 0
    /\ PUSH_API_KEY = Strip(IF Truthy(env) THEN env.val ELSE <<>>)
    /\ _rate_limit_buckets = [ip \in Ips |-> <<>>]
    /\ _firebase_initialized = FALSE
    /\ apps = 0
    /\ pc = [t \in Threads |-> "idle"]
    /\ req = [t \in Threads |-> NoReq]
    /\ now = [t \in Threads |-> 0]
    /\ kept = [t \in Threads |-> <<>>]
    /\ tokens = [t \in Threads |-> <<>>]
    /\ idx = [t \in Threads |-> 0]
    /\ success = [t \in Threads |-> 0]
    /\ failure = [t \in Threads |-> 0]
    /\ resp = [t \in Threads |-> NoResp]
    /\ admitted = [ip \in Ips |-> <<>>]
    /\ unauth = [ip \in Ips |-> <<>>]
    /\ sends = [t \in Threads |-> <<>>]
    /\ work = [t \in Threads |-> {}]
    /\ initCalls = 0
    /\ served = 0

\* every request of a run comes from one and the same client
Init ==
    /\ \E env \in EnvKeys : InitProgram(env)
    /\ \E c \in Clients : peers = {c}
    /\ store \in HandlerStores
    /\ rStore = <<>> /\ rFilter = NoneVal /\ rResult = <<>> /\ rDone = FALSE

---------------------------------------------------------------------------
(* Rate limiter: _rate_limit_check, lines 46-54.  The function holds no    *)
(* lock and send_push is a synchronous handler, which the framework runs   *)
(* on a pool of worker threads: a thread may be preempted between any two  *)
(* of its reads and writes of the shared bucket, so each of them is an     *)
(* action of its own.  A single list operation (the read of the            *)
(* comprehension, the slice assignment, len, append) is taken as atomic.   *)

\* the window test written with <= in place of <
InWindow_le(n, t) == n - t <= RATE_LIMIT_WINDOW_SEC

\* line 50, the condition of the comprehension
InWindow(n, t) == n - t < RATE_LIMIT_WINDOW_SEC

RECURSIVE Prune(_, _)
\* [t for t in bucket if now - t < RATE_LIMIT_WINDOW_SEC]
Prune(bucket, n) ==
    IF bucket = <<>> THEN <<>>
    ELSE IF InWindow(n, Head(bucket))
         THEN <<Head(bucket)>> \o Prune(Tail(bucket), n)
         ELSE Prune(Tail(bucket), n)

\* the limit test written with > in place of >=
OverLimit_gt(bucket) == Len(bucket) > RATE_LIMIT_REQUESTS

\* line 51
OverLimit(bucket) == Len(bucket) >= RATE_LIMIT_REQUESTS

\* the key test without its guard on a configured key
KeyRejected_unguarded(key, header) == header /= Str(key)

\* line 189
KeyRejected(key, header) == key /= <<>> /\ header /= Str(key)

\* one bucket for all clients
Ip_shared(t) == "unknown"

\* line 183: the key of the bucket of the request on thread t
Ip(t) == ClientIp(req[t].client)

Idle == \A t \in Threads : pc[t] = "idle"

\* the request model without its upper lengths
ValidRequest_nomax(title, body, device_name) == Len(title) >= 1 /\ Len(body) >= 1

\* lines 156-164: the constraints of SendPushRequest
ValidRequest(title, body, device_name) ==
    /\ Len(title) >= 1 /\ Len(title) <= TitleMax
    /\ Len(body) >= 1 /\ Len(body) <= BodyMax
    /\ IsStr(device_name) => Len(device_name.val) <= DeviceNameMax

\* a request reaches a worker thread: line 182, the framework builds req from
\* the body and calls send_push, or answers 422 without calling it
Receive(t, client, header, device_name, title, body) ==
    /\ pc[t] = "idle"
    /\ req' = [req EXCEPT ![t] = [client |-> client, api_key |-> header,
                                  device_name |-> device_name,
                                  title |-> title, body |-> body]]
    /\ IF ValidRequest(title, body, device_name)
       THEN /\ pc' = [pc EXCEPT ![t] = "rl_now"]
            /\ UNCHANGED resp
       ELSE /\ pc' = [pc EXCEPT ![t] = "done"]
            /\ resp' = [resp EXCEPT ![t] =
                          [status |-> 422, kind |-> "invalid", success_count |-> 0,
                           failure_count |-> 0, total |-> 0]]
    /\ UNCHANGED <<clock, peers, PUSH_API_KEY, _rate_limit_buckets, _firebase_initialized,
                   apps, store, now, kept, tokens, idx, success, failure,
                   admitted, unauth, sends, work, initCalls, resolveVars>>

\* requests handled one after another: a request arrives when none is in flight
Arrive(t) ==
    /\ Idle
    /\ \E c \in peers, h \in Headers, d \in HandlerFilters :
          Receive(t, c, h, d, Text(TitleMax), Text(BodyMax))
    /\ UNCHANGED served

\* requests handled concurrently by the thread pool
ArriveConcurrent(t) ==
    /\ served < MaxRequests
    /\ served' = served + 1
    /\ \E c \in peers, h \in {NoneVal, Str(PUSH_API_KEY)} :
          Receive(t, c, h, NoneVal, Text(TitleMax), Text(BodyMax))

\* line 48
RlNow(t) ==
    /\ pc[t] = "rl_now"
    /\ now' = [now EXCEPT ![t] = clock]
    /\ pc' = [pc EXCEPT ![t] = "rl_prune"]
    /\ UNCHANGED <<clock, peers, PUSH_API_KEY, _rate_limit_buckets, _firebase_initialized,
                   apps, store, req, kept, tokens, idx, success, failure, resp,
                   histVars, resolveVars>>

\* lines 49-50, the right-hand side: the comprehension reads the bucket
RlPrune(t) ==
    /\ pc[t] = "rl_prune"
    /\ kept' = [kept EXCEPT ![t] = Prune(_rate_limit_buckets[Ip(t)], now[t])]
    /\ pc' = [pc EXCEPT ![t] = "rl_store"]
    /\ UNCHANGED <<clock, peers, PUSH_API_KEY, _rate_limit_buckets, _firebase_initialized,
                   apps, store, req, now, tokens, idx, success, failure, resp,
                   histVars, resolveVars>>

\* the check without its slice assignment: the bucket keeps what it held
RlStore_skip(t) ==
    /\ pc[t] = "rl_store"
    /\ kept' = [kept EXCEPT ![t] = <<>>]
    /\ pc' = [pc EXCEPT ![t] = "rl_len"]
    /\ UNCHANGED <<clock, peers, PUSH_API_KEY, _rate_limit_buckets, _firebase_initialized,
                   apps, store, req, now, tokens, idx, success, failure, resp,
                   histVars, resolveVars>>

\* line 50, the slice assignment bucket[:] = ...
RlStore(t) ==
    /\ pc[t] = "rl_store"
    /\ _rate_limit_buckets' = [_rate_limit_buckets EXCEPT ![Ip(t)] = kept[t]]
    /\ kept' = [kept EXCEPT ![t] = <<>>]
    /\ pc' = [pc EXCEPT ![t] = "rl_len"]
    /\ UNCHANGED <<clock, peers, PUSH_API_KEY, _firebase_initialized, apps, store, req,
                   now, tokens, idx, success, failure, resp, histVars, resolveVars>>

\* lines 51-52
RlLen(t) ==
    /\ pc[t] = "rl_len"
    /\ pc' = [pc EXCEPT ![t] =
                IF OverLimit(_rate_limit_buckets[Ip(t)]) THEN "deny" ELSE "rl_append"]
    /\ UNCHANGED <<clock, peers, PUSH_API_KEY, _rate_limit_buckets, _firebase_initialized,
                   apps, store, req, now, kept, tokens, idx, success, failure, resp,
                   histVars, resolveVars>>

\* the timestamp recorded only for a request whose key is accepted
RlAppend_keyed(t) ==
    /\ pc[t] = "rl_append"
    /\ IF KeyRejected(PUSH_API_KEY, req[t].api_key)
       THEN UNCHANGED <<_rate_limit_buckets, admitted, work>>
       ELSE /\ _rate_limit_buckets' =
                  [_rate_limit_buckets EXCEPT ![Ip(t)] = Append(@, now[t])]
            /\ admitted' = [admitted EXCEPT ![Ip(t)] = Append(@, now[t])]
            /\ work' = [work EXCEPT ![t] = @ \cup {"quota"}]
    /\ pc' = [pc EXCEPT ![t] = "auth"]
    /\ UNCHANGED <<clock, peers, PUSH_API_KEY, _firebase_initialized, apps, store,
                   req, now, kept, tokens, idx, success, failure, resp, unauth,
                   sends, initCalls, served, resolveVars>>

\* lines 53-54
RlAppend(t) ==
    /\ pc[t] = "rl_append"
    /\ _rate_limit_buckets' =
          [_rate_limit_buckets EXCEPT ![Ip(t)] = Append(@, now[t])]
    /\ admitted' = [admitted EXCEPT ![Ip(t)] = Append(@, now[t])]
    /\ work' = [work EXCEPT ![t] = @ \cup {"quota"}]
    /\ pc' = [pc EXCEPT ![t] = "auth"]
    /\ UNCHANGED <<clock, peers, PUSH_API_KEY, _firebase_initialized, apps, store,
                   req, now, kept, tokens, idx, success, failure, resp, unauth,
                   sends, initCalls, served, resolveVars>>

---------------------------------------------------------------------------
(* Request handler: send_push, lines 181-210.  The store query and each    *)
(* provider send are taken to return: the query gives the documents of the *)
(* collection, a send is accepted or raises.                               *)

Response(status, kind, s, f, n) ==
    [status |-> status, kind |-> kind, success_count |-> s, failure_count |-> f,
     total |-> n]

\* a denial that records the time of the denied request
Deny_records(t) ==
    /\ pc[t] = "deny"
    /\ _rate_limit_buckets' =
          [_rate_limit_buckets EXCEPT ![Ip(t)] = Append(@, now[t])]
    /\ resp' = [resp EXCEPT ![t] = Response(429, "rate_limited", 0, 0, 0)]
    /\ pc' = [pc EXCEPT ![t] = "done"]
    /\ UNCHANGED <<clock, peers, PUSH_API_KEY, _firebase_initialized,
                   apps, store, req, now, kept, tokens, idx, success, failure,
                   histVars, resolveVars>>

\* lines 184-188
Deny(t) ==
    /\ pc[t] = "deny"
    /\ resp' = [resp EXCEPT ![t] = Response(429, "rate_limited", 0, 0, 0)]
    /\ pc' = [pc EXCEPT ![t] = "done"]
    /\ UNCHANGED <<clock, peers, PUSH_API_KEY, _rate_limit_buckets, _firebase_initialized,
                   apps, store, req, now, kept, tokens, idx, success, failure,
                   histVars, resolveVars>>

\* the provider initialised before the key is looked at
Auth_late(t) ==
    /\ pc[t] = "auth"
    /\ IF KeyRejected(PUSH_API_KEY, req[t].api_key)
       THEN /\ resp' = [resp EXCEPT ![t] = Response(401, "unauthorized", 0, 0, 0)]
            /\ unauth' = [unauth EXCEPT ![Ip(t)] = Append(@, now[t])]
            /\ work' = [work EXCEPT ![t] = @ \cup {"firebase"}]
            /\ pc' = [pc EXCEPT ![t] = "done"]
       ELSE /\ pc' = [pc EXCEPT ![t] = "fb_check"]
            /\ UNCHANGED <<resp, unauth, work>>
    /\ UNCHANGED <<clock, peers, PUSH_API_KEY, _rate_limit_buckets, _firebase_initialized,
                   apps, store, req, now, kept, tokens, idx, success, failure,
                   admitted, sends, initCalls, served, resolveVars>>

\* lines 189-193
Auth(t) ==
    /\ pc[t] = "auth"
    /\ IF KeyRejected(PUSH_API_KEY, req[t].api_key)
       THEN /\ resp' = [resp EXCEPT ![t] = Response(401, "unauthorized", 0, 0, 0)]
            /\ unauth' = [unauth EXCEPT ![Ip(t)] = Append(@, now[t])]
            /\ pc' = [pc EXCEPT ![t] = "done"]
       ELSE /\ pc' = [pc EXCEPT ![t] = "fb_check"]
            /\ UNCHANGED <<resp, unauth>>
    /\ UNCHANGED <<clock, peers, PUSH_API_KEY, _rate_limit_buckets, _firebase_initialized,
                   apps, store, req, now, kept, tokens, idx, success, failure,
                   admitted, sends, work, initCalls, served, resolveVars>>

\* lines 194, 99-100: _get_firebase_app reads the flag
FbCheck(t) ==
    /\ pc[t] = "fb_check"
    /\ work' = [work EXCEPT ![t] = @ \cup {"firebase"}]
    /\ pc' = [pc EXCEPT ![t] = IF _firebase_initialized THEN "collect" ELSE "fb_init"]
    /\ UNCHANGED <<clock, peers, PUSH_API_KEY, _rate_limit_buckets, _firebase_initialized,
                   apps, store, req, now, kept, tokens, idx, success, failure, resp,
                   admitted, unauth, sends, initCalls, served, resolveVars>>

\* lines 101-112: firebase_admin.initialize_app registers the default app, and
\* raises ValueError when the default app already exists
FbInit(t) ==
    /\ pc[t] = "fb_init"
    /\ initCalls' = initCalls + 1
    /\ IF apps = 0
       THEN /\ apps' = 1
            /\ pc' = [pc EXCEPT ![t] = "fb_set"]
            /\ UNCHANGED resp
       ELSE /\ resp' = [resp EXCEPT ![t] = Response(500, "error", 0, 0, 0)]
            /\ pc' = [pc EXCEPT ![t] = "done"]
            /\ UNCHANGED apps
    /\ UNCHANGED <<clock, peers, PUSH_API_KEY, _rate_limit_buckets, _firebase_initialized,
                   store, req, now, kept, tokens, idx, success, failure,
                   admitted, unauth, sends, work, served, resolveVars>>

\* lines 113-114
FbSet(t) ==
    /\ pc[t] = "fb_set"
    /\ _firebase_initialized' = TRUE
    /\ pc' = [pc EXCEPT ![t] = "collect"]
    /\ UNCHANGED <<clock, peers, PUSH_API_KEY, _rate_limit_buckets, apps, store, req, now,
                   kept, tokens, idx, success, failure, resp, histVars, resolveVars>>

\* the empty result not told apart
NoTokens_never(toks) == FALSE

\* line 197: not tokens
NoTokens(toks) == toks = <<>>

\* lines 195-203: the query, and the response when it yields no token
Collect(t) ==
    /\ pc[t] = "collect"
    /\ LET toks == _collect_fcm_tokens(store, req[t].device_name) IN
       /\ tokens' = [tokens EXCEPT ![t] = toks]
       /\ IF NoTokens(toks)
          THEN /\ resp' = [resp EXCEPT ![t] = Response(200, "no_tokens", 0, 0, 0)]
               /\ work' = [work EXCEPT ![t] = @ \cup {"store"}]
               /\ pc' = [pc EXCEPT ![t] = "done"]
          ELSE /\ work' = [work EXCEPT ![t] = @ \cup {"store", "dispatch"}]
               /\ pc' = [pc EXCEPT ![t] = "send"]
               /\ UNCHANGED resp
    /\ UNCHANGED <<clock, peers, PUSH_API_KEY, _rate_limit_buckets, _firebase_initialized,
                   apps, store, req, now, kept, idx, success, failure,
                   admitted, unauth, sends, initCalls, served, resolveVars>>

\* lines 149-151: the counters after one send
CountSuccess(s, ok) == IF ok THEN s + 1 ELSE s

\* a failed send left uncounted
CountFailure_dropped(f, ok) == f

CountFailure(f, ok) == IF ok THEN f ELSE f + 1

\* the loop left at the first failed send
NextIndex_abort(i, n, ok) == IF ok THEN i + 1 ELSE n

\* line 138: the loop goes on to the next token whatever the send did
NextIndex(i, n, ok) == i + 1

\* one iteration without the except clause: what messaging.send raises leaves
\* the handler and the framework answers 500
SendOne_raise(t) ==
    /\ pc[t] = "send"
    /\ idx[t] < Len(tokens[t])
    /\ \E ok \in BOOLEAN :
          /\ sends' = [sends EXCEPT ![t] =
                          Append(@, [token |-> tokens[t][idx[t] + 1], ok |-> ok,
                                     title |-> Take(req[t].title, TitleMax),
                                     body |-> Take(req[t].body, BodyMax)])]
          /\ success' = [success EXCEPT ![t] = CountSuccess(@, ok)]
          /\ idx' = [idx EXCEPT ![t] = @ + 1]
          /\ IF ok
             THEN UNCHANGED <<pc, resp>>
             ELSE /\ pc' = [pc EXCEPT ![t] = "done"]
                  /\ resp' = [resp EXCEPT ![t] = Response(500, "error", 0, 0, 0)]
    /\ work' = [work EXCEPT ![t] = @ \cup {"send"}]
    /\ UNCHANGED <<clock, peers, PUSH_API_KEY, _rate_limit_buckets, _firebase_initialized,
                   apps, store, req, now, kept, tokens, failure,
                   admitted, unauth, initCalls, served, resolveVars>>

\* lines 138-152: one iteration; messaging.send returns (ok) or raises
SendOne(t) ==
    /\ pc[t] = "send"
    /\ idx[t] < Len(tokens[t])
    /\ \E ok \in BOOLEAN :
          /\ sends' = [sends EXCEPT ![t] =
                          Append(@, [token |-> tokens[t][idx[t] + 1], ok |-> ok,
                                     title |-> Take(req[t].title, TitleMax),
                                     body |-> Take(req[t].body, BodyMax)])]
          /\ success' = [success EXCEPT ![t] = CountSuccess(@, ok)]
          /\ failure' = [failure EXCEPT ![t] = CountFailure(@, ok)]
          /\ idx' = [idx EXCEPT ![t] = NextIndex(@, Len(tokens[t]), ok)]
    /\ work' = [work EXCEPT ![t] = @ \cup {"send"}]
    /\ UNCHANGED <<clock, peers, PUSH_API_KEY, _rate_limit_buckets, _firebase_initialized,
                   apps, store, pc, req, now, kept, tokens, resp,
                   admitted, unauth, initCalls, served, resolveVars>>

\* the response composed as soon as one send was attempted
Respond_early(t) ==
    /\ pc[t] = "send"
    /\ idx[t] >= 1
    /\ resp' = [resp EXCEPT ![t] =
                  Response(200, "sent", success[t], failure[t], Len(tokens[t]))]
    /\ pc' = [pc EXCEPT ![t] = "done"]
    /\ UNCHANGED <<clock, peers, PUSH_API_KEY, _rate_limit_buckets, _firebase_initialized,
                   apps, store, req, now, kept, tokens, idx, success, failure,
                   histVars, resolveVars>>

\* lines 153, 205-210
Respond(t) ==
    /\ pc[t] = "send"
    /\ idx[t] >= Len(tokens[t])
    /\ resp' = [resp EXCEPT ![t] =
                  Response(200, "sent", success[t], failure[t], Len(tokens[t]))]
    /\ pc' = [pc EXCEPT ![t] = "done"]
    /\ UNCHANGED <<clock, peers, PUSH_API_KEY, _rate_limit_buckets, _firebase_initialized,
                   apps, store, req, now, kept, tokens, idx, success, failure,
                   histVars, resolveVars>>

\* the response leaves; the thread's locals are gone
Return(t) ==
    /\ pc[t] = "done"
    /\ pc' = [pc EXCEPT ![t] = "idle"]
    /\ req' = [req EXCEPT ![t] = NoReq]
    /\ now' = [now EXCEPT ![t] = 0]
    /\ kept' = [kept EXCEPT ![t] = <<>>]
    /\ tokens' = [tokens EXCEPT ![t] = <<>>]
    /\ idx' = [idx EXCEPT ![t] = 0]
    /\ success' = [success EXCEPT ![t] = 0]
    /\ failure' = [failure EXCEPT ![t] = 0]
    /\ resp' = [resp EXCEPT ![t] = NoResp]
    /\ sends' = [sends EXCEPT ![t] = <<>>]
    /\ work' = [work EXCEPT ![t] = {}]
    /\ UNCHANGED <<clock, peers, PUSH_API_KEY, _rate_limit_buckets, _firebase_initialized,
                   apps, store, admitted, unauth, initCalls, served, resolveVars>>

\* the monotonic clock advances
Tick ==
    /\ clock < MaxTime
    /\ clock' = clock + 1
    /\ UNCHANGED <<peers, PUSH_API_KEY, _rate_limit_buckets, _firebase_initialized, apps,
                   store, reqVars, histVars, resolveVars>>

\* one step of the handler on thread t
Step(t) ==
    \/ RlNow(t) \/ RlPrune(t) \/ RlStore(t) \/ RlLen(t) \/ RlAppend(t)
    \/ Deny(t) \/ Auth(t)
    \/ FbCheck(t) \/ FbInit(t) \/ FbSet(t)
    \/ Collect(t) \/ SendOne(t) \/ Respond(t) \/ Return(t)

\* requests handled one after another
Next == Tick \/ \E t \in Threads : Arrive(t) \/ Step(t)

Spec == Init /\ [][Next]_vars

\* requests handled concurrently
NextConcurrent == Tick \/ \E t \in Threads : ArriveConcurrent(t) \/ Step(t)

\* one client, a configured key, a collection that holds tokens
InitConcurrent ==
    /\ InitProgram(Str(<<"k", " ">>))
    /\ peers = {"h1"}
    /\ store \in HandlerStores /\ store /= <<>>
    /\ rStore = <<>> /\ rFilter = NoneVal /\ rResult = <<>> /\ rDone = FALSE

SpecConcurrent == InitConcurrent /\ [][NextConcurrent]_vars

---------------------------------------------------------------------------
(* Requests of every title and body length, one after another, from one    *)
(* client, without a configured key, against a collection that holds       *)
(* tokens of device "p".                                                   *)

InitPayload ==
    /\ InitProgram(NoneVal)
    /\ peers = {"h1"}
    /\ store \in HandlerStores /\ store /= <<>>
    /\ rStore = <<>> /\ rFilter = NoneVal /\ rResult = <<>> /\ rDone = FALSE

ArrivePayload(t) ==
    /\ Idle
    /\ \E c \in peers, title \in Titles, body \in Bodies :
          Receive(t, c, NoneVal, Str(<<" ", "p">>), title, body)
    /\ UNCHANGED served

NextPayload == Tick \/ \E t \in Threads : ArrivePayload(t) \/ Step(t)

SpecPayload == InitPayload /\ [][NextPayload]_vars

\* a worker thread that has a step to take goes on to take it
SpecFair == SpecPayload /\ \A t \in Threads : WF_vars(Step(t))

---------------------------------------------------------------------------
(* Requests of two clients, one after another, without a configured key.   *)

InitClients ==
    /\ InitProgram(NoneVal)
    /\ peers = Clients
    /\ store \in HandlerStores /\ store /= <<>>
    /\ rStore = <<>> /\ rFilter = NoneVal /\ rResult = <<>> /\ rDone = FALSE

ArriveClients(t) ==
    /\ Idle
    /\ \E c \in peers :
          Receive(t, c, NoneVal, NoneVal, Text(TitleMax), Text(BodyMax))
    /\ UNCHANGED served

NextClients == Tick \/ \E t \in Threads : ArriveClients(t) \/ Step(t)

SpecClients == InitClients /\ [][NextClients]_vars

---------------------------------------------------------------------------
(* _collect_fcm_tokens on its own, over every store and every filter *)

InitResolve ==
    /\ InitProgram(NoneVal)
    /\ peers = {}
    /\ store = <<>>
    /\ rStore \in Stores
    /\ rFilter \in Filters
    /\ rResult = <<>>
    /\ rDone = FALSE

CallCollect ==
    /\ ~rDone
    /\ rResult' = _collect_fcm_tokens(rStore, rFilter)
    /\ rDone' = TRUE
    /\ UNCHANGED <<clock, peers, PUSH_API_KEY, _rate_limit_buckets, _firebase_initialized,
                   apps, store, reqVars, histVars, rStore, rFilter>>

NextResolve == CallCollect

SpecResolve == InitResolve /\ [][NextResolve]_vars

---------------------------------------------------------------------------
(* Properties *)

Done(t) == pc[t] = "done"

\* the number of times of history h that lie less than a window before n
Recent(h, n) ==
    Cardinality({i \in DOMAIN h : n - h[i] < RATE_LIMIT_WINDOW_SEC})

\* the number of sends of a request that the provider accepted (ok) or refused
Outcomes(t, ok) == Cardinality({i \in DOMAIN sends[t] : sends[t][i].ok = ok})

\* C1: requests of one client handled one after another: any
\* RATE_LIMIT_REQUESTS + 1 admitted requests span at least a whole window (so no
\* span shorter than the window holds more than RATE_LIMIT_REQUESTS admissions),
\* and a request is denied only when RATE_LIMIT_REQUESTS requests were admitted
\* less than a window before it.
RateLimitWindow ==
    \A ip \in Ips :
        /\ \A i, j \in DOMAIN admitted[ip] :
              j - i >= RATE_LIMIT_REQUESTS
                 => admitted[ip][j] - admitted[ip][i] >= RATE_LIMIT_WINDOW_SEC
        /\ \A t \in Threads :
              (pc[t] = "deny" /\ Ip(t) = ip)
                 => Recent(admitted[ip], now[t]) >= RATE_LIMIT_REQUESTS

\* a request is denied after the window has slid once: more than
\* RATE_LIMIT_REQUESTS requests were admitted before it
RateLimitWindowReached ==
    \E t \in Threads :
        pc[t] = "deny" /\ Len(admitted[Ip(t)]) > RATE_LIMIT_REQUESTS

\* C2: under concurrent requests of one client the prune, the count and the
\* append act as one unit: a bucket never holds more than RATE_LIMIT_REQUESTS
\* timestamps, that is, two requests are never both admitted into the last slot.
BucketNeverOverfull ==
    \A ip \in Ips : Len(_rate_limit_buckets[ip]) <= RATE_LIMIT_REQUESTS

\* C3: the status of a response is 429 exactly when the rate-limit check denied
\* the request; of an admitted request it is 401 exactly when a key is configured
\* and the header is absent or differs; without a configured key it is never 401.
StatusOrder ==
    \A t \in Threads :
        Done(t) =>
            /\ resp[t].status = 429 <=> "quota" \notin work[t]
            /\ "quota" \in work[t] =>
                  (resp[t].status = 401 <=>
                      (PUSH_API_KEY /= <<>> /\ req[t].api_key /= Str(PUSH_API_KEY)))
            /\ PUSH_API_KEY = <<>> => resp[t].status /= 401

\* a request without the header of a configured key is answered 429
StatusOrderReached ==
    \E t \in Threads :
        /\ Done(t) /\ resp[t].status = 429
        /\ PUSH_API_KEY /= <<>> /\ req[t].api_key = NoneVal

\* C4: a request answered 401 has consumed quota: its timestamp is the last of
\* its client's bucket; and no request is admitted while RATE_LIMIT_REQUESTS
\* requests answered 401 lie less than a window before it, whatever its key.
UnauthorizedConsumesQuota ==
    \A t \in Threads :
        /\ (Done(t) /\ resp[t].status = 401) =>
              /\ "quota" \in work[t]
              /\ _rate_limit_buckets[Ip(t)] /= <<>>
              /\ _rate_limit_buckets[Ip(t)][Len(_rate_limit_buckets[Ip(t)])] = now[t]
        /\ pc[t] = "auth" => Recent(unauth[Ip(t)], now[t]) < RATE_LIMIT_REQUESTS

\* a request with the right key is answered 429 after RATE_LIMIT_REQUESTS
\* requests answered 401 in its window, and none answered otherwise
UnauthorizedConsumesQuotaReached ==
    \E t \in Threads :
        /\ Done(t) /\ resp[t].status = 429
        /\ PUSH_API_KEY /= <<>> /\ req[t].api_key = Str(PUSH_API_KEY)
        /\ Recent(unauth[Ip(t)], now[t]) >= RATE_LIMIT_REQUESTS
        /\ unauth[Ip(t)] = admitted[Ip(t)]

\* C5: every 200 response has success_count + failure_count = total = the number
\* of resolved tokens, success_count the number of accepted sends and
\* failure_count the number of sends that raised.
CountsAddUp ==
    \A t \in Threads :
        (Done(t) /\ resp[t].status = 200) =>
            /\ resp[t].success_count + resp[t].failure_count = resp[t].total
            /\ resp[t].total = Len(tokens[t])
            /\ resp[t].success_count = Outcomes(t, TRUE)
            /\ resp[t].failure_count = Outcomes(t, FALSE)

\* a dispatch with one token refused and the others accepted
CountsAddUpReached ==
    \E t \in Threads :
        /\ Done(t) /\ resp[t].status = 200
        /\ resp[t].failure_count = 1
        /\ resp[t].success_count = MAX_TOKENS_PER_REQUEST - 1
        /\ resp[t].success_count >= 1

\* C6: the sends of a request are its tokens, in order, one send each: at every
\* moment the sends made are the first tokens of the list, and when the response
\* is composed every token has had its one send, whatever the outcomes.
OneSendPerToken ==
    \A t \in Threads :
        /\ Len(sends[t]) <= Len(tokens[t])
        /\ \A i \in DOMAIN sends[t] : sends[t][i].token = tokens[t][i]
        /\ (Done(t) /\ resp[t].kind = "sent") => Len(sends[t]) = Len(tokens[t])

\* a dispatch whose first send is refused and that still sends to the rest
OneSendPerTokenReached ==
    \E t \in Threads :
        /\ Done(t) /\ resp[t].kind = "sent"
        /\ Len(sends[t]) >= 2
        /\ ~sends[t][1].ok

\* C7: a request answered 429 or 401 has used no collaborator: no provider
\* initialisation, no store query, no dispatch and no send.
RejectedDoesNoWork ==
    \A t \in Threads :
        (Done(t) /\ resp[t].status \in {429, 401}) =>
            /\ work[t] \subseteq {"quota"}
            /\ sends[t] = <<>>
            /\ tokens[t] = <<>>

\* a request is answered 401 before the provider was ever initialised
RejectedDoesNoWorkReached ==
    \E t \in Threads :
        Done(t) /\ resp[t].status = 401 /\ initCalls = 0 /\ ~_firebase_initialized

\* C8: an admitted request whose query yields no token is answered 200 with
\* zero counts and the no-tokens message, and the dispatcher is not invoked.
EmptyResolution ==
    \A t \in Threads :
        (Done(t) /\ resp[t].status = 200 /\ tokens[t] = <<>>) =>
            /\ resp[t] = Response(200, "no_tokens", 0, 0, 0)
            /\ "dispatch" \notin work[t]
            /\ "send" \notin work[t]
            /\ sends[t] = <<>>

\* a filter that matches no document of a collection that holds tokens
EmptyResolutionReached ==
    \E t \in Threads :
        /\ Done(t) /\ resp[t].status = 200 /\ tokens[t] = <<>>
        /\ store /= <<>> /\ HasFilter(req[t].device_name)

\* the filter of the call, trimmed, when it is a non-empty string after trimming
FilterActive == IsStr(rFilter) /\ Strip(rFilter.val) /= <<>>

\* the positions of the store whose token field is a non-empty string
StringTokens == {j \in DOMAIN rStore : IsStr(rStore[j].token) /\ rStore[j].token.val /= <<>>}

\* C9: _collect_fcm_tokens returns at most MAX_TOKENS_PER_REQUEST tokens, each the
\* token of a document whose token field is a non-empty string; with a filter that
\* is non-empty after trimming, of a document whose deviceName equals the trimmed
\* filter; with a filter absent, empty or blank, the valid token of every one of
\* the first MAX_TOKENS_PER_REQUEST documents, whatever its deviceName.
ResolverContract ==
    rDone =>
        /\ Len(rResult) <= MAX_TOKENS_PER_REQUEST
        /\ \A i \in DOMAIN rResult :
              \E j \in StringTokens :
                  /\ Strip(rStore[j].token.val) = rResult[i]
                  /\ FilterActive => rStore[j].deviceName = Str(Strip(rFilter.val))
        /\ ~FilterActive =>
              \A j \in StringTokens :
                  (j <= MAX_TOKENS_PER_REQUEST /\ Strip(rStore[j].token.val) /= <<>>)
                     => \E i \in DOMAIN rResult : rResult[i] = Strip(rStore[j].token.val)

\* a filter with surrounding blanks selects a full page of tokens from a
\* store that also holds a token of another device
ResolverContractReached ==
    /\ rDone
    /\ rFilter = Str(<<" ", "p">>)
    /\ Len(rResult) = MAX_TOKENS_PER_REQUEST
    /\ \E j \in StringTokens : rStore[j].deviceName = Str(<<"q">>)

\* the number of documents that hold a token the resolver accepts
ValidDocs == Cardinality({j \in DOMAIN rStore : ValidToken(rStore[j].token)})

\* C10: without a filter _collect_fcm_tokens returns
\* min(MAX_TOKENS_PER_REQUEST, number of documents with a valid token) tokens.
ResolverFillsCap ==
    (rDone /\ ~FilterActive) =>
        Len(rResult) = IF ValidDocs < MAX_TOKENS_PER_REQUEST
                       THEN ValidDocs ELSE MAX_TOKENS_PER_REQUEST


\* a request whose title or body is longer than the greatest length, and
\* neither is empty
Oversized(r) ==
    /\ Len(r.title) >= 1 /\ Len(r.body) >= 1
    /\ (Len(r.title) > TitleMax \/ Len(r.body) > BodyMax)

\* C11 as stated: a request with an oversized title or body is accepted, not
\* rejected, and every send for it carries the first TitleMax characters of the
\* title and the first BodyMax characters of the body.
TruncatedNotRejected ==
    \A t \in Threads :
        (Done(t) /\ Oversized(req[t])) =>
            /\ resp[t].status /= 422
            /\ \A i \in DOMAIN sends[t] :
                  /\ sends[t][i].title = Take(req[t].title, TitleMax)
                  /\ sends[t][i].body = Take(req[t].body, BodyMax)

\* C11 as amended: a request with an oversized title or body is answered 422
\* before send_push runs, takes no quota and causes no send; every send of an
\* accepted request carries the whole title and body of the request, which are
\* within the greatest lengths.
OversizedRejected ==
    \A t \in Threads :
        /\ (Done(t) /\ Oversized(req[t])) =>
              /\ resp[t].status = 422
              /\ work[t] = {}
              /\ sends[t] = <<>>
        /\ \A i \in DOMAIN sends[t] :
              /\ sends[t][i].title = req[t].title
              /\ sends[t][i].body = req[t].body
              /\ Len(sends[t][i].title) <= TitleMax
              /\ Len(sends[t][i].body) <= BodyMax

\* a request with a title of the greatest length and a body one character
\* longer than the greatest length has been answered
OversizedRejectedReached ==
    \E t \in Threads :
        /\ Done(t)
        /\ Len(req[t].title) = TitleMax
        /\ Len(req[t].body) = BodyMax + 1
        /\ resp[t].status = 422


\* C12: a failed send is never the request's failure.  A request that was
\* admitted and resolved at least one token is answered 200 whatever the sends
\* did; when every send failed, failure_count is total and success_count is 0.
FailuresNotPropagated ==
    \A t \in Threads :
        (Done(t) /\ tokens[t] /= <<>>) =>
            /\ resp[t].status = 200
            /\ resp[t].kind = "sent"
            /\ resp[t].total = Len(tokens[t])
            /\ (Outcomes(t, FALSE) = Len(tokens[t])) =>
                  /\ resp[t].failure_count = resp[t].total
                  /\ resp[t].success_count = 0

\* a request with the most tokens a request can have, every send of which
\* failed, has been answered
FailuresNotPropagatedReached ==
    \E t \in Threads :
        /\ Done(t)
        /\ Len(tokens[t]) = MAX_TOKENS_PER_REQUEST
        /\ Outcomes(t, FALSE) = Len(tokens[t])
        /\ resp[t].status = 200
        /\ resp[t].failure_count = Len(tokens[t])


\* C13 as stated: in every reachable state every timestamp of every bucket is
\* at most a window older than the clock, also while time advances between two
\* checks of the client.
BucketsWithinWindow ==
    \A ip \in Ips : \A i \in DOMAIN _rate_limit_buckets[ip] :
        clock - _rate_limit_buckets[ip][i] <= RATE_LIMIT_WINDOW_SEC

\* C13 as amended: the bucket is pruned only by a check of its client.  The
\* slice assignment of a check leaves in the client's bucket only timestamps
\* less than a window older than the time that check read; until the client's
\* next check older timestamps stay in the bucket.
PrunedOnCheck ==
    [][\A t \in Threads :
          (pc[t] = "rl_store" /\ pc'[t] = "rl_len") =>
              \A i \in DOMAIN _rate_limit_buckets'[Ip(t)] :
                  now[t] - _rate_limit_buckets'[Ip(t)][i] < RATE_LIMIT_WINDOW_SEC]_vars

\* a check has just pruned: some admitted timestamp is gone from the bucket,
\* another is still in it
PrunedOnCheckReached ==
    \E t \in Threads :
        /\ pc[t] = "rl_len"
        /\ _rate_limit_buckets[Ip(t)] /= <<>>
        /\ Len(_rate_limit_buckets[Ip(t)]) < Len(admitted[Ip(t)])


\* the timestamps of history h that are less than w older than time n
Younger(h, n, w) == SelectSeq(h, LAMBDA a : n - a < w)

\* C14 as stated: a check drops exactly the timestamps older than the window;
\* one that is exactly a window old is retained.  After the prune of a check
\* the bucket holds the admitted timestamps of age at most the window.
KeepsWindowOld ==
    \A t \in Threads :
        pc[t] = "rl_len" =>
            _rate_limit_buckets[Ip(t)] =
                Younger(admitted[Ip(t)], now[t], RATE_LIMIT_WINDOW_SEC + 1)

\* C14 as amended: a check keeps exactly the timestamps less than a window
\* old; one that is exactly a window old is dropped and no longer counts, so a
\* denial has RATE_LIMIT_REQUESTS admissions less than a window before it.
DropsWindowOld ==
    \A t \in Threads :
        /\ pc[t] = "rl_len" =>
              _rate_limit_buckets[Ip(t)] =
                  Younger(admitted[Ip(t)], now[t], RATE_LIMIT_WINDOW_SEC)
        /\ pc[t] = "deny" =>
              Len(Younger(admitted[Ip(t)], now[t], RATE_LIMIT_WINDOW_SEC))
                  >= RATE_LIMIT_REQUESTS

\* a check has pruned while an admitted timestamp was exactly a window old
DropsWindowOldReached ==
    \E t \in Threads :
        /\ pc[t] = "rl_len"
        /\ \E i \in DOMAIN admitted[Ip(t)] :
              now[t] - admitted[Ip(t)][i] = RATE_LIMIT_WINDOW_SEC
        /\ Len(_rate_limit_buckets[Ip(t)]) =
              Len(Younger(admitted[Ip(t)], now[t], RATE_LIMIT_WINDOW_SEC))


\* C15: once dispatch has begun for a request it runs to completion.  When
\* every provider call returns or raises, a request in the send loop is in the
\* end answered, and the answer is composed with a send attempted for every
\* resolved token.
DispatchCompletes ==
    \A t \in Threads :
        (pc[t] = "send") ~>
            (/\ Done(t)
             /\ resp[t].kind = "sent"
             /\ Len(sends[t]) = Len(tokens[t])
             /\ \A i \in DOMAIN tokens[t] : sends[t][i].token = tokens[t][i])

\* a request with two tokens, one send accepted and one failed, has been
\* answered after both sends
DispatchCompletesReached ==
    \E t \in Threads :
        /\ Done(t)
        /\ resp[t].kind = "sent"
        /\ Len(tokens[t]) >= 2
        /\ Len(sends[t]) = Len(tokens[t])
        /\ Outcomes(t, TRUE) >= 1
        /\ Outcomes(t, FALSE) >= 1


\* C16: a check that denies records nothing.  At and after a denial the
\* client's bucket is its admitted timestamps less than a window older than
\* the denied request, the denied request took no quota, and whether a check
\* denies depends on the admitted timestamps alone: it denies only while
\* RATE_LIMIT_REQUESTS of them are in the window, so the client is admitted
\* again once the oldest of them has left it.
DenialRecordsNothing ==
    \A t \in Threads :
        /\ (pc[t] = "deny" \/ (Done(t) /\ resp[t].status = 429)) =>
              /\ _rate_limit_buckets[Ip(t)] =
                    Younger(admitted[Ip(t)], now[t], RATE_LIMIT_WINDOW_SEC)
              /\ Len(_rate_limit_buckets[Ip(t)]) = RATE_LIMIT_REQUESTS
              /\ "quota" \notin work[t]
        /\ pc[t] = "rl_append" =>
              Len(Younger(admitted[Ip(t)], now[t], RATE_LIMIT_WINDOW_SEC))
                  < RATE_LIMIT_REQUESTS

\* a request was denied and answered, and by now the oldest timestamp of the
\* bucket has left the window
DenialRecordsNothingReached ==
    \E t \in Threads :
        /\ Done(t)
        /\ resp[t].status = 429
        /\ Len(_rate_limit_buckets[Ip(t)]) = RATE_LIMIT_REQUESTS
        /\ clock - _rate_limit_buckets[Ip(t)][1] >= RATE_LIMIT_WINDOW_SEC


\* C17: buckets of different clients are independent.  A step changes the
\* bucket of a client IP only as the prune or the append of a check of a
\* request of that IP, and a request is denied only when RATE_LIMIT_REQUESTS
\* requests of its own IP were admitted less than a window before it: requests
\* of another client never make it denied.
BucketsIndependent ==
    [][\A ip \in Ips :
          /\ _rate_limit_buckets'[ip] /= _rate_limit_buckets[ip] =>
                \E t \in Threads :
                    /\ ClientIp(req[t].client) = ip
                    /\ pc[t] \in {"rl_store", "rl_append"}
          /\ admitted'[ip] /= admitted[ip] =>
                \E t \in Threads :
                    /\ ClientIp(req[t].client) = ip
                    /\ pc[t] = "rl_append"
          /\ \A t \in Threads :
                (ClientIp(req[t].client) = ip /\ pc[t] = "rl_len" /\ pc'[t] = "deny") =>
                    Len(Younger(admitted[ip], now[t], RATE_LIMIT_WINDOW_SEC))
                        >= RATE_LIMIT_REQUESTS]_vars

\* a request of one client is admitted while the bucket of the other client
\* is full of timestamps inside the window
BucketsIndependentReached ==
    \E t \in Threads : \E ip \in Ips :
        /\ pc[t] = "auth"
        /\ "quota" \in work[t]
        /\ ip /= ClientIp(req[t].client)
        /\ Len(_rate_limit_buckets[ip]) = RATE_LIMIT_REQUESTS
        /\ \A i \in DOMAIN _rate_limit_buckets[ip] :
              now[t] - _rate_limit_buckets[ip][i] < RATE_LIMIT_WINDOW_SEC


\* how many times timestamp v stands in sequence h
Count(h, v) == Len(SelectSeq(h, LAMBDA a : a = v))

\* C18: under concurrent checks of one client no admitted timestamp is lost.
\* Every timestamp admitted less than a window ago stands in the client's
\* bucket as many times as it was admitted.
AdmittedNotLost ==
    \A ip \in Ips : \A v \in 0 .. MaxTime :
        clock - v < RATE_LIMIT_WINDOW_SEC =>
            Count(_rate_limit_buckets[ip], v) >= Count(admitted[ip], v)

\* C19: under concurrent admitted requests the lazy initialisation is
\* one-time.  firebase_admin.initialize_app is called at most once, and
\* _firebase_initialized is true only when an initialisation has completed.
InitializedOnce ==
    /\ initCalls <= 1
    /\ _firebase_initialized => apps = 1

=============================================================================
